---- MODULE Spec2Model ----
(***************************************************************************)
(* Model of src/game.js (2048): the grid, the score, the win and busy      *)
(* flags, the deferred (setTimeout) callbacks of move(), and the two       *)
(* localStorage keys.  Rendering (createTileElement, renderGrid, the       *)
(* 'merging' and 'score-update' class timers) only writes DOM nodes that   *)
(* the logic never reads back, and is left out; the game message element   *)
(* is kept because it is the win / game-over signal.                       *)
(***************************************************************************)
EXTENDS Integers, Sequences, FiniteSets, Bags, TLC

VARIABLES grid, score, bestScore, hasWon, isAnimating,
          timers, gameMessage, localStorage,
          games, winSignals, overSignals, recorded, ops, last

vars == <<grid, score, bestScore, hasWon, isAnimating,
          timers, gameMessage, localStorage,
          games, winSignals, overSignals, recorded, ops, last>>

(***************************************************************************)
(* Program constants                                                       *)
(***************************************************************************)
GRID_SIZE == 4

WIN_VALUE == 2048

HIGHSCORE_LIMIT == 10

(***************************************************************************)
(* Bounds of the model                                                     *)
(***************************************************************************)
\* user inputs (move, startNewGame) per behaviour
MaxOps == 3

\* startNewGame calls after the first one
MaxGames == 1

\* Math.random() takes the values k / RandSteps, k in 0 .. RandSteps-1,
\* when it picks the empty cell
RandSteps == 1

\* input boards hold tile values 2^1 .. 2^MaxExp
MaxExp == 2

\* scattered input boards hold at most MaxTiles tiles
MaxTiles == 2

\* dense input boards differ from a checkerboard in at most MaxHoles cells
MaxHoles == 1

\* saveHighScore calls per behaviour when it is exercised alone
MaxSaves == 11

\* the scores saved then are 4 * k, k in 0 .. MaxScoreStep
MaxScoreStep == 2

(***************************************************************************)
(* Grid helpers                                                            *)
(***************************************************************************)
Idx == 0 .. (GRID_SIZE - 1)

Cells == {[x |-> c, y |-> r] : c \in Idx, r \in Idx}

Directions == {"up", "down", "left", "right"}

NULL == -1

\* Array(GRID_SIZE).fill(null).map(() => Array(GRID_SIZE).fill(v))
FilledGrid(v) == [r \in Idx |-> [c \in Idx |-> v]]

SetCell(g, r, c, v) == [g EXCEPT ![r][c] = v]

Reverse(s) == [i \in 1 .. Len(s) |-> s[Len(s) + 1 - i]]

RECURSIVE Pow2(_)
Pow2(k) == IF k = 0 THEN 1 ELSE 2 * Pow2(k - 1)

RECURSIVE Log2(_)
Log2(v) == IF v <= 1 THEN 0 ELSE 1 + Log2(v \div 2)

(***************************************************************************)
(* move(): vectors, traversal order, farthest position                     *)
(***************************************************************************)
vectors(direction) ==
    CASE direction = "up"    -> [x |-> 0,  y |-> -1]
      [] direction = "down"  -> [x |-> 0,  y |-> 1]
      [] direction = "left"  -> [x |-> -1, y |-> 0]
      [] direction = "right" -> [x |-> 1,  y |-> 0]

\* variant: the traversal is never reversed
buildTraversals_ascending(vector) ==
    LET positions == [i \in 1 .. GRID_SIZE |-> i - 1]
    IN  [x |-> positions, y |-> positions]

buildTraversals(vector) ==
    LET positions == [i \in 1 .. GRID_SIZE |-> i - 1]
    IN  [x |-> IF vector.x = 1 THEN Reverse(positions) ELSE positions,
         y |-> IF vector.y = 1 THEN Reverse(positions) ELSE positions]

withinBounds(cell) ==
    /\ cell.x >= 0 /\ cell.x < GRID_SIZE
    /\ cell.y >= 0 /\ cell.y < GRID_SIZE

RECURSIVE findFarthestPosition(_, _, _)
findFarthestPosition(g, cell, vector) ==
    LET previous == cell
        nxt == [x |-> previous.x + vector.x, y |-> previous.y + vector.y]
    IN  IF withinBounds(nxt) /\ g[nxt.y][nxt.x] = 0
        THEN findFarthestPosition(g, nxt, vector)
        ELSE [farthest |-> previous, next |-> nxt]

\* variant: the merged grid is not consulted
canMerge_ignoreMerged(st, next, tile) ==
    /\ withinBounds(next)
    /\ st.grid[next.y][next.x] = tile

\* the merge test of line 174
canMerge(st, next, tile) ==
    /\ withinBounds(next)
    /\ st.grid[next.y][next.x] = tile
    /\ ~st.merged[next.y][next.x]

\* variant: a tile that stays where it is still counts as moved
moveCell_alwaysMoved(st, cell, vector) ==
    LET tile == st.grid[cell.y][cell.x]
        positions == findFarthestPosition(st.grid, cell, vector)
        next == positions.next
        farthest == positions.farthest
    IN  IF tile = 0 THEN st
        ELSE IF canMerge(st, next, tile)
        THEN [st EXCEPT
                !.grid = SetCell(SetCell(st.grid, next.y, next.x, tile * 2),
                                 cell.y, cell.x, 0),
                !.merged = SetCell(st.merged, next.y, next.x, TRUE),
                !.score = st.score + tile * 2,
                !.mergedTiles = Append(st.mergedTiles,
                    [row |-> next.y, col |-> next.x, value |-> tile * 2]),
                !.moved = TRUE]
        ELSE [st EXCEPT
                !.grid = SetCell(SetCell(st.grid, cell.y, cell.x, 0),
                                 farthest.y, farthest.x, tile),
                !.moved = TRUE]

\* variant: a merge adds the value of one of the two tiles to the score
moveCell_scoreOneTile(st, cell, vector) ==
    LET tile == st.grid[cell.y][cell.x]
        positions == findFarthestPosition(st.grid, cell, vector)
        next == positions.next
        farthest == positions.farthest
    IN  IF tile = 0 THEN st
        ELSE IF canMerge(st, next, tile)
        THEN [st EXCEPT
                !.grid = SetCell(SetCell(st.grid, next.y, next.x, tile * 2),
                                 cell.y, cell.x, 0),
                !.merged = SetCell(st.merged, next.y, next.x, TRUE),
                !.score = st.score + tile,
                !.mergedTiles = Append(st.mergedTiles,
                    [row |-> next.y, col |-> next.x, value |-> tile * 2]),
                !.moved = TRUE]
        ELSE IF farthest.x # cell.x \/ farthest.y # cell.y
        THEN [st EXCEPT
                !.grid = SetCell(SetCell(st.grid, farthest.y, farthest.x, tile),
                                 cell.y, cell.x, 0),
                !.moved = TRUE]
        ELSE st

\* variant: the merged value is the tile plus two
moveCell_mergeAddsTwo(st, cell, vector) ==
    LET tile == st.grid[cell.y][cell.x]
        positions == findFarthestPosition(st.grid, cell, vector)
        next == positions.next
        farthest == positions.farthest
    IN  IF tile = 0 THEN st
        ELSE IF canMerge(st, next, tile)
        THEN [st EXCEPT
                !.grid = SetCell(SetCell(st.grid, next.y, next.x, tile + 2),
                                 cell.y, cell.x, 0),
                !.merged = SetCell(st.merged, next.y, next.x, TRUE),
                !.score = st.score + (tile + 2),
                !.mergedTiles = Append(st.mergedTiles,
                    [row |-> next.y, col |-> next.x, value |-> tile + 2]),
                !.moved = TRUE]
        ELSE IF farthest.x # cell.x \/ farthest.y # cell.y
        THEN [st EXCEPT
                !.grid = SetCell(SetCell(st.grid, farthest.y, farthest.x, tile),
                                 cell.y, cell.x, 0),
                !.moved = TRUE]
        ELSE st

\* variant: a merge leaves the moving tile in its cell
moveCell_keepSource(st, cell, vector) ==
    LET tile == st.grid[cell.y][cell.x]
        positions == findFarthestPosition(st.grid, cell, vector)
        next == positions.next
        farthest == positions.farthest
    IN  IF tile = 0 THEN st
        ELSE IF canMerge(st, next, tile)
        THEN [st EXCEPT
                !.grid = SetCell(st.grid, next.y, next.x, tile * 2),
                !.merged = SetCell(st.merged, next.y, next.x, TRUE),
                !.score = st.score + tile * 2,
                !.mergedTiles = Append(st.mergedTiles,
                    [row |-> next.y, col |-> next.x, value |-> tile * 2]),
                !.moved = TRUE]
        ELSE IF farthest.x # cell.x \/ farthest.y # cell.y
        THEN [st EXCEPT
                !.grid = SetCell(SetCell(st.grid, farthest.y, farthest.x, tile),
                                 cell.y, cell.x, 0),
                !.moved = TRUE]
        ELSE st

\* body of the inner forEach of move(), lines 166-193; st holds the locals
\* and globals the loop updates
moveCell(st, cell, vector) ==
    LET tile == st.grid[cell.y][cell.x]
        positions == findFarthestPosition(st.grid, cell, vector)
        next == positions.next
        farthest == positions.farthest
    IN  IF tile = 0 THEN st
        ELSE IF canMerge(st, next, tile)
        THEN [st EXCEPT
                !.grid = SetCell(SetCell(st.grid, next.y, next.x, tile * 2),
                                 cell.y, cell.x, 0),
                !.merged = SetCell(st.merged, next.y, next.x, TRUE),
                !.score = st.score + tile * 2,
                !.mergedTiles = Append(st.mergedTiles,
                    [row |-> next.y, col |-> next.x, value |-> tile * 2]),
                !.moved = TRUE]
        ELSE IF farthest.x # cell.x \/ farthest.y # cell.y
        THEN [st EXCEPT
                !.grid = SetCell(SetCell(st.grid, farthest.y, farthest.x, tile),
                                 cell.y, cell.x, 0),
                !.moved = TRUE]
        ELSE st

\* traversals.y.forEach(y => traversals.x.forEach(x => ...)) as one sequence
traversalCells(traversals) ==
    [i \in 1 .. (GRID_SIZE * GRID_SIZE) |->
        [x |-> traversals.x[((i - 1) % GRID_SIZE) + 1],
         y |-> traversals.y[((i - 1) \div GRID_SIZE) + 1]]]

RECURSIVE moveCells(_, _, _)
moveCells(st, cells, vector) ==
    IF cells = <<>> THEN st
    ELSE moveCells(moveCell(st, Head(cells), vector), Tail(cells), vector)

\* lines 143-195: the slide/merge pass of move(direction) on grid g
slide(g, sc, direction) ==
    LET vector == vectors(direction)
        traversals == buildTraversals(vector)
        start == [grid |-> g, merged |-> FilledGrid(FALSE), score |-> sc,
                  mergedTiles |-> <<>>, moved |-> FALSE]
    IN  moveCells(start, traversalCells(traversals), vector)

(***************************************************************************)
(* Terminal tests                                                          *)
(***************************************************************************)
\* variant: only empty cells are looked for
movesAvailable_emptyOnly(g) ==
    \E row \in Idx, col \in Idx : g[row][col] = 0

\* variant: only the right neighbour is compared
movesAvailable_rightOnly(g) ==
    \/ \E row \in Idx, col \in Idx : g[row][col] = 0
    \/ \E row \in Idx, col \in Idx :
          col < GRID_SIZE - 1 /\ g[row][col + 1] = g[row][col]

movesAvailable(g) ==
    \/ \E row \in Idx, col \in Idx : g[row][col] = 0
    \/ \E row \in Idx, col \in Idx :
          \/ row < GRID_SIZE - 1 /\ g[row + 1][col] = g[row][col]
          \/ col < GRID_SIZE - 1 /\ g[row][col + 1] = g[row][col]

hasReached2048(g) == \E row \in Idx, col \in Idx : g[row][col] >= WIN_VALUE

(***************************************************************************)
(* spawnTile                                                               *)
(***************************************************************************)
\* the empty cells in the order of the two nested loops (row-major)
RECURSIVE emptyCellsFrom(_, _)
emptyCellsFrom(g, i) ==
    IF i = GRID_SIZE * GRID_SIZE THEN <<>>
    ELSE LET row == i \div GRID_SIZE
             col == i % GRID_SIZE
         IN  IF g[row][col] = 0
             THEN <<[row |-> row, col |-> col]>> \o emptyCellsFrom(g, i + 1)
             ELSE emptyCellsFrom(g, i + 1)

emptyCells(g) == emptyCellsFrom(g, 0)

\* the two Math.random() draws of spawnTile: rk / RandSteps picks the cell,
\* tenths / 10 picks the value
RandomCell == 0 .. (RandSteps - 1)

RandomTenths == {0, 9}

\* variant: the cell is picked among all cells, empty or not
spawnTile_anyCell(g, rk, tenths) ==
    LET cells == [i \in 1 .. (GRID_SIZE * GRID_SIZE) |->
                    [row |-> (i - 1) \div GRID_SIZE, col |-> (i - 1) % GRID_SIZE]]
        cell == cells[((rk * Len(cells)) \div RandSteps) + 1]
    IN  IF Len(emptyCells(g)) > 0
        THEN SetCell(g, cell.row, cell.col, IF tenths < 9 THEN 2 ELSE 4)
        ELSE g

spawnTile(g, rk, tenths) ==
    LET cells == emptyCells(g)
    IN  IF Len(cells) > 0
        THEN LET cell == cells[((rk * Len(cells)) \div RandSteps) + 1]
             IN  SetCell(g, cell.row, cell.col, IF tenths < 9 THEN 2 ELSE 4)
        ELSE g

(***************************************************************************)
(* Score and highscores                                                    *)
(***************************************************************************)
\* updateScore, lines 337-341: the new best score and store
\* variant: the store is written when the score reaches the best score
updateScore_writeOnEqual(sc, best, store) ==
    IF sc >= best
    THEN [bestScore |-> sc, store |-> [store EXCEPT !.bestScore = sc],
          writes |-> 1]
    ELSE [bestScore |-> best, store |-> store, writes |-> 0]

\* writes counts the localStorage.setItem('2048-best-score') calls
updateScore(sc, best, store) ==
    IF sc > best
    THEN [bestScore |-> sc, store |-> [store EXCEPT !.bestScore = sc],
          writes |-> 1]
    ELSE [bestScore |-> best, store |-> store, writes |-> 0]

\* Array.prototype.sort((a, b) => b.score - a.score): stable, descending
RECURSIVE insertDesc(_, _)
insertDesc(sorted, e) ==
    IF sorted = <<>> THEN <<e>>
    ELSE IF Head(sorted) >= e THEN <<Head(sorted)>> \o insertDesc(Tail(sorted), e)
    ELSE <<e>> \o sorted

RECURSIVE sortDesc(_)
sortDesc(s) ==
    IF s = <<>> THEN <<>>
    ELSE insertDesc(sortDesc(SubSeq(s, 1, Len(s) - 1)), s[Len(s)])

\* variant: the list is cut without being sorted
saveHighScore_noSort(store, sc) ==
    LET pushed == Append(store.highscores, sc)
        kept == SubSeq(pushed, 1, IF Len(pushed) < HIGHSCORE_LIMIT
                                  THEN Len(pushed) ELSE HIGHSCORE_LIMIT)
    IN  [store EXCEPT !.highscores = kept]

\* saveHighScore: entries are modelled by their score (the date is not read
\* by any logic)
saveHighScore(store, sc) ==
    LET pushed == Append(store.highscores, sc)
        sorted == sortDesc(pushed)
        kept == SubSeq(sorted, 1, IF Len(sorted) < HIGHSCORE_LIMIT
                                  THEN Len(sorted) ELSE HIGHSCORE_LIMIT)
    IN  [store EXCEPT !.highscores = kept]

(***************************************************************************)
(* Operations                                                              *)
(***************************************************************************)
NoMessage == [visible |-> FALSE, text |-> ""]

Record(op, direction, returned, mergedTiles) ==
    [op |-> op, direction |-> direction, returned |-> returned,
     mergedTiles |-> mergedTiles, prevGrid |-> grid, busy |-> isAnimating,
     bestWrites |-> 0]

\* variant: no busy guard
moveIgnored_never(busy) == FALSE

\* line 141: if (isAnimating) return false
moveIgnored(busy) == busy

\* variant: the win flag is not consulted
winReached_everyTime(won, g) == hasReached2048(g)

\* line 218: !hasWon && hasReached2048()
winReached(won, g) == ~won /\ hasReached2048(g)

\* move(direction), lines 140-229
move(direction) ==
    /\ ops < MaxOps
    /\ ops' = ops + 1
    /\ IF moveIgnored(isAnimating)
       THEN /\ last' = Record("move", direction, FALSE, <<>>)
            /\ UNCHANGED <<grid, score, bestScore, hasWon, isAnimating, timers,
                           gameMessage, localStorage, games, winSignals,
                           overSignals, recorded>>
       ELSE LET r == slide(grid, score, direction)
                u == updateScore(r.score, bestScore, localStorage)
            IN  /\ grid' = r.grid
                /\ score' = r.score
                /\ last' = [Record("move", direction, r.moved, r.mergedTiles)
                              EXCEPT !.bestWrites = IF r.moved THEN u.writes
                                                    ELSE 0]
                /\ IF r.moved
                   THEN /\ isAnimating' = TRUE
                        /\ bestScore' = u.bestScore
                        /\ localStorage' = u.store
                        /\ timers' = Append(timers, [game |-> games])
                   ELSE UNCHANGED <<isAnimating, bestScore, localStorage, timers>>
                /\ UNCHANGED <<hasWon, gameMessage, games, winSignals,
                               overSignals, recorded>>

\* startNewGame, lines 54-68
startNewGame ==
    /\ ops < MaxOps
    /\ games < MaxGames
    /\ ops' = ops + 1
    /\ games' = games + 1
    /\ \E rk1 \in RandomCell, t1 \in RandomTenths,
          rk2 \in RandomCell, t2 \in RandomTenths :
          grid' = spawnTile(spawnTile(FilledGrid(0), rk1, t1), rk2, t2)
    /\ score' = 0
    /\ hasWon' = FALSE
    /\ isAnimating' = FALSE
    /\ LET u == updateScore(0, bestScore, localStorage)
       IN  /\ bestScore' = u.bestScore
           /\ localStorage' = u.store
           /\ last' = [Record("startNewGame", "none", FALSE, <<>>)
                         EXCEPT !.bestWrites = u.writes]
    /\ gameMessage' = [gameMessage EXCEPT !.visible = FALSE]
    /\ winSignals' = 0
    /\ overSignals' = 0
    /\ UNCHANGED <<timers, recorded>>

\* variant: the loss branch shows the message and does not save the score
deferredCallback_lossNotSaved ==
    /\ timers # <<>>
    /\ timers' = Tail(timers)
    /\ \E rk \in RandomCell, t \in RandomTenths :
          grid' = spawnTile(grid, rk, t)
    /\ isAnimating' = FALSE
    /\ IF winReached(hasWon, grid')
       THEN /\ hasWon' = TRUE
            /\ gameMessage' = [visible |-> TRUE, text |-> "You Win!"]
            /\ winSignals' = winSignals + 1
            /\ UNCHANGED <<localStorage, overSignals, recorded>>
       ELSE IF ~movesAvailable(grid')
       THEN /\ gameMessage' = [visible |-> TRUE, text |-> "Game Over!"]
            /\ overSignals' = overSignals + 1
            /\ UNCHANGED <<hasWon, winSignals, localStorage, recorded>>
       ELSE UNCHANGED <<hasWon, gameMessage, winSignals, localStorage,
                        overSignals, recorded>>
    /\ last' = Record("timer", "none", FALSE, <<>>)
    /\ UNCHANGED <<score, bestScore, games, ops>>

\* variant: the callback leaves isAnimating as it is
deferredCallback_keepsBusy ==
    /\ timers # <<>>
    /\ timers' = Tail(timers)
    /\ \E rk \in RandomCell, t \in RandomTenths :
          grid' = spawnTile(grid, rk, t)
    /\ isAnimating' = isAnimating
    /\ IF winReached(hasWon, grid')
       THEN /\ hasWon' = TRUE
            /\ gameMessage' = [visible |-> TRUE, text |-> "You Win!"]
            /\ winSignals' = winSignals + 1
            /\ UNCHANGED <<localStorage, overSignals, recorded>>
       ELSE IF ~movesAvailable(grid')
       THEN /\ gameMessage' = [visible |-> TRUE, text |-> "Game Over!"]
            /\ localStorage' = saveHighScore(localStorage, score)
            /\ overSignals' = overSignals + 1
            /\ recorded' = recorded (+) SetToBag({score})
            /\ UNCHANGED <<hasWon, winSignals>>
       ELSE UNCHANGED <<hasWon, gameMessage, winSignals, localStorage,
                        overSignals, recorded>>
    /\ last' = Record("timer", "none", FALSE, <<>>)
    /\ UNCHANGED <<score, bestScore, games, ops>>

\* the deferred callback of move(), lines 214-225; timers with equal delay
\* fire in the order they were set
deferredCallback ==
    /\ timers # <<>>
    /\ timers' = Tail(timers)
    /\ \E rk \in RandomCell, t \in RandomTenths :
          grid' = spawnTile(grid, rk, t)
    /\ isAnimating' = FALSE
    /\ IF winReached(hasWon, grid')
       THEN /\ hasWon' = TRUE
            /\ gameMessage' = [visible |-> TRUE, text |-> "You Win!"]
            /\ winSignals' = winSignals + 1
            /\ UNCHANGED <<localStorage, overSignals, recorded>>
       ELSE IF ~movesAvailable(grid')
       THEN /\ gameMessage' = [visible |-> TRUE, text |-> "Game Over!"]
            /\ localStorage' = saveHighScore(localStorage, score)
            /\ overSignals' = overSignals + 1
            /\ recorded' = recorded (+) SetToBag({score})
            /\ UNCHANGED <<hasWon, winSignals>>
       ELSE UNCHANGED <<hasWon, gameMessage, winSignals, localStorage,
                        overSignals, recorded>>
    /\ last' = Record("timer", "none", FALSE, <<>>)
    /\ UNCHANGED <<score, bestScore, games, ops>>

(***************************************************************************)
(* Initial states                                                          *)
(***************************************************************************)
\* the score of a board whose tiles were all built from spawned 2s
RECURSIVE builtScore(_, _)
builtScore(g, i) ==
    IF i = GRID_SIZE * GRID_SIZE THEN 0
    ELSE LET v == g[i \div GRID_SIZE][i % GRID_SIZE]
         IN  (IF v = 0 THEN 0 ELSE (Log2(v) - 1) * v) + builtScore(g, i + 1)

\* an idle game on board g with score sc, first game of a fresh browser
\* profile (the best score is the score, no highscore saved yet)
InProgress(g, sc) ==
    /\ grid = g
    /\ score = sc
    /\ bestScore = sc
    /\ hasWon = FALSE
    /\ isAnimating = FALSE
    /\ timers = <<>>
    /\ gameMessage = NoMessage
    /\ localStorage = [bestScore |-> IF sc > 0 THEN sc ELSE NULL,
                       highscores |-> <<>>]
    /\ games = 0
    /\ winSignals = 0
    /\ overSignals = 0
    /\ recorded = EmptyBag
    /\ ops = 0
    /\ last = [op |-> "init", direction |-> "none", returned |-> FALSE,
               mergedTiles |-> <<>>, prevGrid |-> g, busy |-> FALSE,
               bestWrites |-> 0]

\* init() on a fresh profile: loadBestScore finds nothing, startNewGame
FreshBoards ==
    {spawnTile(spawnTile(FilledGrid(0), rk1, t1), rk2, t2) :
        rk1 \in RandomCell, t1 \in RandomTenths,
        rk2 \in RandomCell, t2 \in RandomTenths}

RowsGrid(r0, r1, r2, r3) ==
    [r \in Idx |-> [c \in Idx |->
        (CASE r = 0 -> r0 [] r = 1 -> r1 [] r = 2 -> r2 [] r = 3 -> r3)[c + 1]]]

\* boards of games in progress: one move from 2048, and nearly full
SeedBoards ==
    { RowsGrid(<<1024, 1024, 1024, 1024>>, <<0, 0, 0, 0>>,
               <<0, 0, 0, 0>>, <<2, 0, 0, 0>>),
      RowsGrid(<<2, 4, 2, 4>>, <<4, 2, 4, 2>>,
               <<2, 4, 2, 4>>, <<4, 8, 16, 0>>),
      RowsGrid(<<2, 4, 2, 4>>, <<4, 2, 4, 2>>,
               <<2, 4, 2, 4>>, <<4, 8, 8, 16>>) }

Init ==
    \/ \E g \in FreshBoards : InProgress(g, 0)
    \/ \E g \in SeedBoards : InProgress(g, builtScore(g, 0))

Next ==
    \/ \E direction \in Directions : move(direction)
    \/ startNewGame
    \/ deferredCallback

Spec == Init /\ [][Next]_vars

\* a timer that was set fires: the callback is not postponed forever; the
\* game starts from a nearly full board in progress
InitFair ==
    \E g \in {RowsGrid(<<2, 4, 2, 4>>, <<4, 2, 4, 2>>,
                       <<2, 4, 2, 4>>, <<4, 8, 16, 0>>)} :
        InProgress(g, builtScore(g, 0))

SpecFair == InitFair /\ [][Next]_vars /\ WF_vars(deferredCallback)

(***************************************************************************)
(* Single moves on input boards                                            *)
(***************************************************************************)
TileValues == {Pow2(k) : k \in 1 .. MaxExp}

BoardOf(base, f) ==
    [r \in Idx |-> [c \in Idx |->
        IF [x |-> c, y |-> r] \in DOMAIN f THEN f[[x |-> c, y |-> r]]
        ELSE base[r][c]]]

\* boards of 2 .. MaxTiles tiles anywhere
SparseBoards ==
    UNION { {BoardOf(FilledGrid(0), f) : f \in [S -> TileValues]} :
            S \in {T \in SUBSET Cells :
                     Cardinality(T) >= 2 /\ Cardinality(T) <= MaxTiles} }

Checkerboard(a, b) ==
    [r \in Idx |-> [c \in Idx |-> IF (r + c) % 2 = 0 THEN a ELSE b]]

\* full boards without a move, and the boards at most MaxHoles cells away
DenseBoards ==
    UNION { {BoardOf(Checkerboard(p[1], p[2]), f) :
                f \in [S -> TileValues \cup {0}]} :
            p \in {q \in TileValues \X TileValues : q[1] # q[2]},
            S \in {T \in SUBSET Cells : Cardinality(T) <= MaxHoles} }

\* boards whose tiles all lie in one row or one column, in every pattern
LineBoards ==
    { g \in { [r \in Idx |-> [c \in Idx |->
                 IF horizontal THEN (IF r = k THEN line[c + 1] ELSE 0)
                 ELSE (IF c = k THEN line[r + 1] ELSE 0)]] :
             line \in [1 .. GRID_SIZE -> TileValues \cup {0}],
             k \in Idx, horizontal \in BOOLEAN } :
      Len(emptyCells(g)) <= GRID_SIZE * GRID_SIZE - 2 }

InputBoards == SparseBoards \cup LineBoards \cup DenseBoards

InitBoards == \E g \in InputBoards : InProgress(g, builtScore(g, 0))

moveOnce == \E direction \in Directions : last.op = "init" /\ move(direction)

NextMove == moveOnce \/ deferredCallback

SpecMove == InitBoards /\ [][NextMove]_vars

(***************************************************************************)
(* End games                                                               *)
(***************************************************************************)
\* boards one move from a full board without moves; on the second the move
\* also makes the first 2048
EndBoards ==
    { RowsGrid(<<2, 4, 2, 4>>, <<4, 2, 4, 2>>,
               <<2, 4, 2, 4>>, <<0, 8, 16, 32>>),
      RowsGrid(<<2, 4, 2, 4>>, <<4, 2, 4, 2>>,
               <<2, 4, 2, 4>>, <<1024, 1024, 8, 16>>) }

\* a second game in which the callback of the previous move is still
\* pending while isAnimating is clear: startNewGame (line 58) cleared the
\* flag under a pending callback, and since then every move was made after
\* the callback of the move before it and before its own
Overlapped(g, sc) ==
    /\ grid = g
    /\ score = sc
    /\ bestScore = sc
    /\ hasWon = FALSE
    /\ isAnimating = FALSE
    /\ timers = <<[game |-> 1]>>
    /\ gameMessage = NoMessage
    /\ localStorage = [bestScore |-> IF sc > 0 THEN sc ELSE NULL,
                       highscores |-> <<>>]
    /\ games = 1
    /\ winSignals = 0
    /\ overSignals = 0
    /\ recorded = EmptyBag
    /\ ops = 0
    /\ last = [op |-> "init", direction |-> "none", returned |-> FALSE,
               mergedTiles |-> <<>>, prevGrid |-> g, busy |-> FALSE,
               bestWrites |-> 0]

InitEnd ==
    \/ \E g \in EndBoards : InProgress(g, builtScore(g, 0))
    \/ \E g \in EndBoards : Overlapped(g, builtScore(g, 0))

SpecEnd == InitEnd /\ [][Next]_vars

(***************************************************************************)
(* saveHighScore on its own                                                *)
(***************************************************************************)
SavedScores == {4 * k : k \in 0 .. MaxScoreStep}

\* saveHighScore() called with the global score equal to sc
saveCall(sc) ==
    /\ BagCardinality(recorded) < MaxSaves
    /\ localStorage' = saveHighScore(localStorage, sc)
    /\ recorded' = recorded (+) SetToBag({sc})
    /\ last' = Record("saveHighScore", "none", FALSE, <<>>)
    /\ UNCHANGED <<grid, score, bestScore, hasWon, isAnimating, timers,
                   gameMessage, games, winSignals, overSignals, ops>>

InitSave == \E g \in FreshBoards : InProgress(g, 0)

NextSave == \E sc \in SavedScores : saveCall(sc)

SpecSave == InitSave /\ [][NextSave]_vars

(***************************************************************************)
(* Properties                                                              *)
(***************************************************************************)
\* line k of board g seen from the destination edge of the direction:
\* element 1 is the cell nearest that edge
LineOf(g, direction, k) ==
    CASE direction = "left"  -> [i \in 1 .. GRID_SIZE |-> g[k][i - 1]]
      [] direction = "right" -> [i \in 1 .. GRID_SIZE |-> g[k][GRID_SIZE - i]]
      [] direction = "up"    -> [i \in 1 .. GRID_SIZE |-> g[i - 1][k]]
      [] direction = "down"  -> [i \in 1 .. GRID_SIZE |-> g[GRID_SIZE - i][k]]

RowOf(g, r) == [i \in 1 .. GRID_SIZE |-> g[r][i - 1]]

NonZero(v) == v # 0

Compact(line) ==
    LET tiles == SelectSeq(line, NonZero)
    IN  [i \in 1 .. Len(line) |-> IF i <= Len(tiles) THEN tiles[i] ELSE 0]

RECURSIVE MergePairs(_)
MergePairs(line) ==
    IF Len(line) < 2 THEN line
    ELSE IF line[1] # 0 /\ line[1] = line[2]
    THEN <<2 * line[1], 0>> \o MergePairs(SubSeq(line, 3, Len(line)))
    ELSE <<line[1]>> \o MergePairs(Tail(line))

\* the reference line operator: compact, merge pairwise once, compact
RefLine(line) == Compact(MergePairs(Compact(line)))

\* the last operation was a move() that got past the busy guard
MoveRan == last.op = "move" /\ ~last.busy

\* C1: one move() resolves every line like the reference line operator
\* (compact toward the destination edge, merge equal neighbours pairwise once
\* starting nearest that edge, compact again); [0,2,2,2] moved right becomes
\* [0,0,2,4] and [2,2,4,4] moved left becomes [4,8,0,0].
C1_MoveMatchesReferenceLine ==
    MoveRan =>
      \A k \in Idx :
        /\ LineOf(grid, last.direction, k)
             = RefLine(LineOf(last.prevGrid, last.direction, k))
        /\ (last.direction = "right" /\ RowOf(last.prevGrid, k) = <<0, 2, 2, 2>>)
             => RowOf(grid, k) = <<0, 0, 2, 4>>
        /\ (last.direction = "left" /\ RowOf(last.prevGrid, k) = <<2, 2, 4, 4>>)
             => RowOf(grid, k) = <<4, 8, 0, 0>>

C1_Witness ==
    /\ MoveRan
    /\ last.direction = "right"
    /\ \E k \in Idx : /\ RowOf(last.prevGrid, k) = <<0, 2, 2, 2>>
                      /\ RowOf(grid, k) = <<0, 0, 2, 4>>

\* number of cells of a line holding value v
RECURSIVE CountIn(_, _)
CountIn(line, v) ==
    IF line = <<>> THEN 0
    ELSE (IF Head(line) = v THEN 1 ELSE 0) + CountIn(Tail(line), v)

\* index of the line a cell lies on when moving in a direction
LineIndex(direction, row, col) ==
    IF direction \in {"left", "right"} THEN row ELSE col

\* number of merge events of value v on line k
RECURSIVE MergesOf(_, _, _, _)
MergesOf(events, direction, k, v) ==
    IF events = <<>> THEN 0
    ELSE (IF /\ LineIndex(direction, Head(events).row, Head(events).col) = k
             /\ Head(events).value = v
          THEN 1 ELSE 0) + MergesOf(Tail(events), direction, k, v)

\* C2: within one move() no cell is the destination of more than one merge:
\* the merge destinations are pairwise distinct, every merged tile still holds
\* its merged value when the move ends, and the merges of value 2v on a line
\* each use up two tiles of value v that were on the line before the move;
\* [2,2,2,0] moved left gives [4,2,0,0].
C2_MergeOncePerCell ==
    MoveRan =>
      LET events == last.mergedTiles
      IN  /\ \A i \in 1 .. Len(events), j \in 1 .. Len(events) :
                i # j => <<events[i].row, events[i].col>>
                           # <<events[j].row, events[j].col>>
          /\ \A i \in 1 .. Len(events) :
                grid[events[i].row][events[i].col] = events[i].value
          /\ \A k \in Idx, i \in 1 .. Len(events) :
                LET v == events[i].value \div 2
                IN  2 * MergesOf(events, last.direction, k, 2 * v)
                      <= CountIn(LineOf(last.prevGrid, last.direction, k), v)
          /\ \A k \in Idx :
                (last.direction = "left"
                   /\ RowOf(last.prevGrid, k) = <<2, 2, 2, 0>>)
                  => RowOf(grid, k) = <<4, 2, 0, 0>>

\* a move in which the merged grid stops a second merge into the same cell
C2_Witness ==
    /\ MoveRan
    /\ last.direction = "left"
    /\ \E k \in Idx : /\ RowOf(last.prevGrid, k) = <<2, 2, 4, 0>>
                      /\ RowOf(grid, k) = <<4, 4, 0, 0>>
    /\ Len(last.mergedTiles) = 1

\* C3: at most one move is in flight: a move() that changed the grid and
\* whose deferred callback has not run yet is never joined by a second one,
\* so at most one deferred callback is pending.
C3_OneMoveInFlight == Len(timers) <= 1

\* a tile of board g can slide or merge in the direction
CanSlideOrMerge(g, direction) ==
    \E c \in Cells :
        LET n == [x |-> c.x + vectors(direction).x,
                  y |-> c.y + vectors(direction).y]
        IN  /\ g[c.y][c.x] # 0
            /\ n \in Cells
            /\ g[n.y][n.x] \in {0, g[c.y][c.x]}

\* the step is a call of move()
MoveStep == ops' = ops + 1 /\ last'.op = "move"

\* the step is a call of startNewGame()
NewGameStep == games' = games + 1

\* C4: a move() in a direction in which no tile can slide or merge returns
\* false and leaves grid, score, best score, win flag, busy flag, pending
\* callbacks, game message and stores unchanged.
C4_RejectedMoveChangesNothing ==
    [][(MoveStep /\ ~CanSlideOrMerge(grid, last'.direction))
         => /\ last'.returned = FALSE
            /\ UNCHANGED <<grid, score, bestScore, hasWon, isAnimating,
                           timers, gameMessage, localStorage>>]_vars

\* an accepted call on a board with tiles, none of which can move
C4_Witness ==
    /\ MoveRan
    /\ ~CanSlideOrMerge(last.prevGrid, last.direction)
    /\ ~last.returned
    /\ grid = last.prevGrid
    /\ movesAvailable(grid)

\* C5: a move() issued while isAnimating is set returns false and leaves
\* grid, score, best score, win flag, busy flag, pending callbacks, game
\* message and stores unchanged, whatever the direction and the board.
C5_MoveWhileBusyIgnored ==
    [][(MoveStep /\ isAnimating)
         => /\ last'.returned = FALSE
            /\ UNCHANGED <<grid, score, bestScore, hasWon, isAnimating,
                           timers, gameMessage, localStorage>>]_vars

\* an ignored call that would have changed the board
C5_Witness ==
    /\ last.op = "move"
    /\ last.busy
    /\ isAnimating
    /\ ~last.returned
    /\ CanSlideOrMerge(grid, last.direction)

TileCount(g) == GRID_SIZE * GRID_SIZE - Len(emptyCells(g))

\* C6: right after startNewGame() the grid has exactly two non-empty cells,
\* each 2 or 4, score is 0 and the win and busy flags are clear.
C6_NewGameReset ==
    last.op = "startNewGame" =>
        /\ TileCount(grid) = 2
        /\ \A r \in Idx, c \in Idx : grid[r][c] \in {0, 2, 4}
        /\ score = 0
        /\ ~hasWon
        /\ ~isAnimating

\* a new game started while a move was being resolved on a fuller board
C6_Witness ==
    /\ last.op = "startNewGame"
    /\ last.busy
    /\ TileCount(last.prevGrid) > 2
    /\ TileCount(grid) = 2

\* C7: once hasWon is set only startNewGame clears it, and 'You Win!' is
\* shown at most once between two startNewGame calls.
C7_WinStickyAndOnce ==
    [][/\ (hasWon /\ ~NewGameStep) => hasWon'
       /\ winSignals' <= 1
       /\ (winSignals' > winSignals) => (~hasWon /\ hasWon')]_vars

\* play went on after the win and the callback saw a tile >= 2048 again
C7_Witness ==
    /\ hasWon
    /\ winSignals = 1
    /\ last.op = "timer"
    /\ \E r \in Idx, c \in Idx : last.prevGrid[r][c] > WIN_VALUE

\* two orthogonally adjacent cells of g hold equal values
AdjacentEqual(g) ==
    \E c \in Cells, n \in Cells :
        /\ (c.x - n.x) * (c.x - n.x) + (c.y - n.y) * (c.y - n.y) = 1
        /\ g[c.y][c.x] = g[n.y][n.x]

HasEmptyCell(g) == \E c \in Cells : g[c.y][c.x] = 0

\* C8: movesAvailable() is false exactly when the grid has no empty cell and
\* no two orthogonally adjacent cells hold equal values.
C8_MovesAvailableExact ==
    movesAvailable(grid) <=> (HasEmptyCell(grid) \/ AdjacentEqual(grid))

\* the terminal check of a callback found a full board without equal pairs
C8_Witness ==
    /\ last.op = "timer"
    /\ ~HasEmptyCell(grid)
    /\ ~AdjacentEqual(grid)
    /\ gameMessage = [visible |-> TRUE, text |-> "Game Over!"]

RECURSIVE SumValues(_)
SumValues(events) ==
    IF events = <<>> THEN 0 ELSE Head(events).value + SumValues(Tail(events))

\* C9: a move() that changes the grid adds the sum of the values of its
\* merges to score, startNewGame() sets score to 0, nothing else changes
\* score; score is non-negative and does not decrease within a game.
C9_ScoreEvolution ==
    [][/\ IF NewGameStep THEN score' = 0
          ELSE IF MoveStep /\ last'.returned
          THEN score' = score + SumValues(last'.mergedTiles)
          ELSE score' = score
       /\ ~NewGameStep => score' >= score
       /\ score' >= 0]_vars

\* a move with two merges
C9_Witness ==
    /\ MoveRan
    /\ last.returned
    /\ Len(last.mergedTiles) = 2
    /\ score >= SumValues(last.mergedTiles)
    /\ SumValues(last.mergedTiles) > 0

RECURSIVE GridSumFrom(_, _)
GridSumFrom(g, i) ==
    IF i = GRID_SIZE * GRID_SIZE THEN 0
    ELSE g[i \div GRID_SIZE][i % GRID_SIZE] + GridSumFrom(g, i + 1)

GridSum(g) == GridSumFrom(g, 0)

\* C10 as stated: after a move() with at least one merge the tile sum equals
\* the tile sum before the move plus the sum of the merged values.
C10_SumGrowsByMerges ==
    (MoveRan /\ Len(last.mergedTiles) >= 1) =>
        GridSum(grid) = GridSum(last.prevGrid) + SumValues(last.mergedTiles)

\* C10: after a move() with at least one merge (before the spawn) the sum of
\* all tile values equals the sum before the move.
C10_SumPreserved ==
    (MoveRan /\ Len(last.mergedTiles) >= 1) =>
        GridSum(grid) = GridSum(last.prevGrid)

C10_Witness ==
    /\ MoveRan
    /\ Len(last.mergedTiles) >= 2
    /\ grid # last.prevGrid
    /\ GridSum(grid) = GridSum(last.prevGrid)

\* C11: bestScore >= score between operations, bestScore never decreases
\* (it is the larger of the previous best and the new score after every
\* step, startNewGame included), and a move() writes the best score to
\* localStorage exactly once when its resulting score exceeds the previous
\* best and not at all otherwise.
C11_BestScoreTracksMax ==
    /\ [](bestScore >= score)
    /\ [][/\ bestScore' >= bestScore
          /\ bestScore' = IF score' > bestScore THEN score' ELSE bestScore
          /\ MoveStep =>
               /\ last'.bestWrites = IF score' > bestScore THEN 1 ELSE 0
               /\ score' > bestScore => localStorage'.bestScore = score'
               /\ ~(score' > bestScore) => localStorage' = localStorage]_vars

\* a move whose score exceeds the previous best
C11_Witness ==
    /\ MoveRan
    /\ last.returned
    /\ last.bestWrites = 1
    /\ score > 0
    /\ bestScore = score
    /\ localStorage.bestScore = score

Min(a, b) == IF a < b THEN a ELSE b

Max(a, b) == IF a > b THEN a ELSE b

SeqRange(q) == {q[i] : i \in 1 .. Len(q)}

\* number of recorded scores greater than v
RECURSIVE CopiesAbove(_, _, _)
CopiesAbove(B, S, v) ==
    IF S = {} THEN 0
    ELSE LET w == CHOOSE x \in S : TRUE
         IN  (IF w > v THEN CopiesIn(w, B) ELSE 0) + CopiesAbove(B, S \ {w}, v)

\* how many entries of score v the ten largest recorded scores contain
TopCopies(B, v) ==
    Min(CopiesIn(v, B),
        Max(0, HIGHSCORE_LIMIT - CopiesAbove(B, BagToSet(B), v)))

\* C12: after any sequence of saveHighScore() calls the stored list is
\* sorted by score in non-increasing order, has at most 10 entries and holds
\* exactly the 10 largest scores recorded so far; a call adds no entry other
\* than the score it saves, so a removed entry does not come back.
C12_HighscoresAreTopTen ==
    /\ [](LET hs == localStorage.highscores
          IN  /\ Len(hs) <= HIGHSCORE_LIMIT
              /\ \A i \in 1 .. (Len(hs) - 1) : hs[i] >= hs[i + 1]
              /\ \A v \in BagToSet(recorded) \cup SeqRange(hs) :
                    CountIn(hs, v) = TopCopies(recorded, v))
    /\ [][\A v \in SeqRange(localStorage'.highscores) :
            CountIn(localStorage'.highscores, v)
              <= CountIn(localStorage.highscores, v)
                   + (CopiesIn(v, recorded') - CopiesIn(v, recorded))]_vars

\* more than ten scores were saved and a recorded score is no longer stored
C12_Witness ==
    /\ last.op = "saveHighScore"
    /\ BagCardinality(recorded) > HIGHSCORE_LIMIT
    /\ Len(localStorage.highscores) = HIGHSCORE_LIMIT
    /\ \E v \in BagToSet(recorded) :
          CountIn(localStorage.highscores, v) < CopiesIn(v, recorded)
    /\ localStorage.highscores[1] > localStorage.highscores[HIGHSCORE_LIMIT]

\* the step is a run of the deferred callback
TimerStep == ops' = ops /\ last'.op = "timer"

\* C13: spawnTile() on a grid with an empty cell changes exactly one cell,
\* from empty to 2 or 4, and leaves every other cell and the scores
\* unchanged; on a full grid it changes nothing.  (The callback that calls it
\* writes the flags itself, lines 216-219.)
C13_SpawnChangesOneEmptyCell ==
    [][TimerStep =>
         /\ IF HasEmptyCell(grid)
            THEN \E c \in Cells :
                    /\ grid[c.y][c.x] = 0
                    /\ grid'[c.y][c.x] \in {2, 4}
                    /\ \A d \in Cells \ {c} : grid'[d.y][d.x] = grid[d.y][d.x]
            ELSE grid' = grid
         /\ score' = score
         /\ bestScore' = bestScore]_vars

\* a callback that found the grid full
C13_Witness ==
    /\ last.op = "timer"
    /\ ~HasEmptyCell(last.prevGrid)
    /\ grid = last.prevGrid

IsPowerOfTwo(v) == v >= 2 /\ Pow2(Log2(v)) = v

\* C14: in every reachable state every cell of the grid is 0 or a power of
\* two >= 2.
C14_CellsArePowersOfTwo ==
    \A r \in Idx, c \in Idx : grid[r][c] = 0 \/ IsPowerOfTwo(grid[r][c])

\* a move of a started game merged two tiles into one of 8 or more and the
\* callback then spawned a tile next to it
C14_Witness ==
    /\ last.op = "timer"
    /\ \E r \in Idx, c \in Idx : grid[r][c] >= 8
    /\ \E r \in Idx, c \in Idx : grid[r][c] # last.prevGrid[r][c]
    /\ TileCount(grid) < 4

\* move() in the direction would change board g
MoveChanges(g, direction) == slide(g, 0, direction).grid # g

\* C15: in every reachable state movesAvailable() is false if and only if
\* move() would leave the grid unchanged in all four directions.
C15_LossTestAgreesWithMove ==
    ~movesAvailable(grid) <=> \A d \in Directions : ~MoveChanges(grid, d)

\* a move() was tried on a full board without moves and changed nothing
C15_Witness ==
    /\ MoveRan
    /\ ~last.returned
    /\ ~movesAvailable(grid)
    /\ \A d \in Directions : ~MoveChanges(grid, d)

\* C19: right after a move() that changes the grid, before the spawn, the
\* grid has at least one empty cell, and the callback that follows it in
\* uninterrupted play places a tile.
C19_ChangedMoveLeavesEmptyCell ==
    /\ (MoveRan /\ last.returned) => HasEmptyCell(grid)
    /\ last.op = "timer" => TileCount(grid) = TileCount(last.prevGrid) + 1

\* a merge on a full board
C19_Witness ==
    /\ MoveRan
    /\ last.returned
    /\ ~HasEmptyCell(last.prevGrid)
    /\ HasEmptyCell(grid)
    /\ Len(last.mergedTiles) >= 1

C17_StuckBoardIsGameOver ==
    (~isAnimating /\ timers = <<>> /\ ~movesAvailable(grid))
        => /\ overSignals >= 1
           /\ gameMessage = [visible |-> TRUE, text |-> "Game Over!"]
           /\ CountIn(localStorage.highscores, score) >= 1

\* the score is in the highscore list, or the list is full of scores that
\* are not lower
InHighscores(store, sc) ==
    \/ CountIn(store.highscores, sc) >= 1
    \/ /\ Len(store.highscores) = HIGHSCORE_LIMIT
       /\ \A i \in 1 .. Len(store.highscores) : store.highscores[i] >= sc

\* C17 (amended): whenever isAnimating is clear, no callback is pending and
\* movesAvailable() is false, either 'Game Over!' has been emitted in the
\* current game, is the message shown, and saveHighScore() has been called
\* with the score, which is in the list unless ten scores not lower fill it;
\* or the board became stuck on the callback that signalled the win: then
\* 'You Win!' is shown, no 'Game Over!' was emitted and the board holds a
\* tile >= 2048.
C17_StuckBoardIsGameOverUnlessWon ==
    (~isAnimating /\ timers = <<>> /\ ~movesAvailable(grid))
        => \/ /\ overSignals >= 1
              /\ gameMessage = [visible |-> TRUE, text |-> "Game Over!"]
              /\ BagIn(score, recorded)
              /\ InHighscores(localStorage, score)
           \/ /\ overSignals = 0
              /\ hasWon
              /\ winSignals = 1
              /\ hasReached2048(grid)
              /\ gameMessage = [visible |-> TRUE, text |-> "You Win!"]

\* a board got stuck on a spawn and the game is over, score recorded
C17_Witness ==
    /\ ~isAnimating
    /\ timers = <<>>
    /\ ~movesAvailable(grid)
    /\ last.op = "timer"
    /\ movesAvailable(last.prevGrid)
    /\ overSignals = 1
    /\ CountIn(localStorage.highscores, score) = 1

\* C18: a callback scheduled before startNewGame() leaves the new game's
\* grid and flags as they are; a callback of the current game adds one
\* tile; startNewGame() leaves two tiles.
C18_OnlyOwnCallbacksSpawn ==
    /\ [][(TimerStep /\ Head(timers).game # games)
            => UNCHANGED <<grid, isAnimating, hasWon, gameMessage>>]_vars
    /\ [][(TimerStep /\ Head(timers).game = games /\ HasEmptyCell(grid))
            => TileCount(grid') = TileCount(grid) + 1]_vars
    /\ [][NewGameStep => TileCount(grid') = 2]_vars

\* C20: in one game the loss branch of the callback, which emits
\* 'Game Over!' and calls saveHighScore(), runs at most once (overSignals
\* counts its runs since the last startNewGame()).
C20_GameOverOncePerGame == overSignals <= 1

====
